---- MODULE Spec2Model ----
(***************************************************************************)
(* Recipe / ingredient catalog (recipe_management): the Relay global-id    *)
(* resolver (utils.py), the serializers' validation (serializers.py), the  *)
(* six GraphQL mutations (schema.py) over the two tables of models.py, and *)
(* the token gateway in front of the GraphQL view (views.py).              *)
(*                                                                         *)
(* Text (names, titles) is a sequence of one-character strings, so that    *)
(* trimming and the character-class rules are computed, not assumed.       *)
(* Error messages are the source's message templates.                      *)
(***************************************************************************)
EXTENDS Integers, Sequences, FiniteSets, TLC

VARIABLES
    ingredients,        \* table Ingredient: pk -> name
    recipes,            \* table Recipe with its m2m rows: pk -> [title, ingredients]
    nextIngredientId,   \* next auto-increment pk of Ingredient
    nextRecipeId,       \* next auto-increment pk of Recipe
    last,               \* the API call being answered: request and response
    tokens,             \* authtoken table: the users that hold a token key
    gw,                 \* the gateway's last dispatch: request and outcome
    workers,            \* concurrent request workers: position and locals
    resolved            \* the resolver's last direct call: arguments and result

vars ==
    <<ingredients, recipes, nextIngredientId, nextRecipeId, last, tokens, gw, workers, resolved>>

db == <<ingredients, recipes, nextIngredientId, nextRecipeId>>

-----------------------------------------------------------------------------
(* Bounds of the model *)

MaxIngredientId == 2
MaxRecipeId == 2
MaxBatch == 2
MaxPrefix == 11

-----------------------------------------------------------------------------
(* Text and its character classes (Python str.isdigit, regex \w and \s) *)

Letters == {"a", "b", "A"}
Digits == {"1"}
Spaces == {" "}

RECURSIVE LStrip(_)
LStrip(s) == IF s # <<>> /\ Head(s) \in Spaces THEN LStrip(Tail(s)) ELSE s

RECURSIVE RStrip(_)
RStrip(s) ==
    IF s # <<>> /\ s[Len(s)] \in Spaces THEN RStrip(SubSeq(s, 1, Len(s) - 1)) ELSE s

\* str.strip(), applied by CharField(trim_whitespace=True) before the validators
Strip(s) == RStrip(LStrip(s))

IsDigit(s) == s # <<>> /\ \A i \in 1..Len(s) : s[i] \in Digits

\* re.fullmatch(r'[^\w\s]+', value)
OnlySpecial(s) == s # <<>> /\ \A i \in 1..Len(s) : s[i] \notin (Letters \cup Digits \cup Spaces)

\* The names and titles a client sends
NameInputs ==
    { <<"a", "b">>, <<"A", "b">>, <<"1", "#">>,
      <<" ", "a", "b">>, <<"a", " ">>, <<"1", "1">>, <<"#", "#">>, <<>>, <<" ", " ">> }

TitleInputs ==
    { <<"a", "b">>, <<"A", "b">>, <<" ", "a", "b">>, <<"a", " ">>, <<"1", "1">> }

validate_string_field(value) ==
    IF Len(value) < 2 THEN {"Must be at least 2 characters long."}
    ELSE IF IsDigit(value) THEN {"Must not be only numbers."}
    ELSE IF OnlySpecial(value) THEN {"Must not be only special characters."}
    ELSE {}

-----------------------------------------------------------------------------
(* Relay global ids.  A global id is what from_global_id makes of the       *)
(* client's string: the decoding raises (wf = FALSE), or it yields a type   *)
(* name and the text of the local id: empty, not a number, or an integer.   *)

Tok(k, v) == [k |-> k, v |-> v]
EmptyTok == Tok("empty", 0)
TextTok == Tok("text", 0)
IntTok(n) == Tok("int", n)

Gid(t, tok) == [wf |-> TRUE, type |-> t, id |-> tok]
BadGid == [wf |-> FALSE, type |-> "", id |-> EmptyTok]
NoGid == [wf |-> FALSE, type |-> "none", id |-> EmptyTok]

IngredientGids ==
    { Gid("IngredientType", IntTok(n)) : n \in 1..MaxIngredientId }
RecipeGids ==
    { Gid("RecipeType", IntTok(n)) : n \in 1..MaxRecipeId }

\* ids given where one Ingredient id is expected
IngredientIdInputs ==
    IngredientGids \cup
    { Gid("RecipeType", IntTok(1)), Gid("IngredientType", IntTok(0)),
      Gid("IngredientType", EmptyTok), Gid("IngredientType", TextTok), BadGid }

\* ids given where one Recipe id is expected
RecipeIdInputs ==
    RecipeGids \cup
    { Gid("IngredientType", IntTok(1)), Gid("RecipeType", EmptyTok), BadGid }

\* elements of an ingredient id list
BatchIdInputs ==
    IngredientGids \cup { Gid("RecipeType", IntTok(1)), BadGid }

RECURSIVE SeqsUpTo(_, _)
SeqsUpTo(S, n) ==
    IF n = 0 THEN { <<>> }
    ELSE LET shorter == SeqsUpTo(S, n - 1)
         IN  shorter \cup { Append(s, x) : s \in { t \in shorter : Len(t) = n - 1 }, x \in S }

BatchInputs == SeqsUpTo(BatchIdInputs, MaxBatch)

-----------------------------------------------------------------------------
(* Responses *)

Ok == [ok |-> TRUE, kind |-> "ok", label |-> "", msgs |-> {}]
Err(kind, label) == [ok |-> FALSE, kind |-> kind, label |-> label, msgs |-> {}]
Invalid(msgs) == [ok |-> FALSE, kind |-> "validation", label |-> "", msgs |-> msgs]

\* constants.NUMBER_TRACKER: position -> ordinal word
NUMBER_TRACKER ==
    <<"First", "Second", "Third", "Fourth", "Fifth",
      "Sixth", "Seventh", "Eighth", "Ninth", "Tenth">>

PositionLabel(i, tracker_label) ==
    (IF i \in DOMAIN NUMBER_TRACKER THEN NUMBER_TRACKER[i] ELSE ToString(i) \o "th")
        \o " " \o tracker_label

\* Model.objects.filter(pk=internal_id).first() on the table of _type
Table(_type) == IF _type = "IngredientType" THEN DOMAIN ingredients ELSE DOMAIN recipes

\* as get_internal_id_from_global_id, without the test of the node type: the
\* local id is looked up in the table of expected_type
get_internal_id_from_global_id_NoTypeTest(global_id, expected_type, label) ==
    IF ~global_id.wf
        THEN [ok |-> FALSE, id |-> 0, err |-> Err("decode", "")]
    ELSE IF global_id.id.k = "empty"
        THEN [ok |-> FALSE, id |-> 0, err |-> Err("is invalid.", label)]
    ELSE IF global_id.id.k = "text"
        THEN [ok |-> FALSE, id |-> 0, err |-> Err("expected a number", "")]
    ELSE IF global_id.id.v \notin Table(expected_type)
        THEN [ok |-> FALSE, id |-> 0, err |-> Err("not found.", label)]
    ELSE [ok |-> TRUE, id |-> global_id.id.v, err |-> Ok]

\* [ok, id] on success, [ok, err] with the GraphQLError otherwise.  An exception
\* raised inside the try block (by from_global_id, or by filter(pk=...) on a
\* local id that is not a number) is re-raised as GraphQLError(str(e)): the
\* message is the exception's own text and does not contain the label.
get_internal_id_from_global_id(global_id, expected_type, label) ==
    IF ~global_id.wf
        THEN [ok |-> FALSE, id |-> 0, err |-> Err("decode", "")]
    ELSE IF global_id.id.k = "empty"
        THEN [ok |-> FALSE, id |-> 0, err |-> Err("is invalid.", label)]
    ELSE IF global_id.type # expected_type
        THEN [ok |-> FALSE, id |-> 0, err |-> Err("Invalid node type", label)]
    ELSE IF global_id.id.k = "text"
        THEN [ok |-> FALSE, id |-> 0, err |-> Err("expected a number", "")]
    ELSE IF global_id.id.v \notin Table(global_id.type)
        THEN [ok |-> FALSE, id |-> 0, err |-> Err("not found.", label)]
    ELSE [ok |-> TRUE, id |-> global_id.id.v, err |-> Ok]

\* as decode_loop, going on after a failure and raising the last error met
RECURSIVE decode_loop_KeepGoing(_, _, _, _, _)
decode_loop_KeepGoing(global_ids, expected_type, tracker_label, i, internal_ids) ==
    IF i > Len(global_ids) THEN [ok |-> TRUE, ids |-> internal_ids, err |-> Ok]
    ELSE LET r == get_internal_id_from_global_id(
                      global_ids[i], expected_type, PositionLabel(i, tracker_label))
             rest == decode_loop_KeepGoing(global_ids, expected_type, tracker_label, i + 1,
                         IF r.ok THEN Append(internal_ids, r.id) ELSE internal_ids)
         IN  IF r.ok \/ ~rest.ok THEN rest
             ELSE [ok |-> FALSE, ids |-> <<>>, err |-> r.err]

\* the loop of decode_global_ids_with_labels from position i on, internal_ids so far
RECURSIVE decode_loop(_, _, _, _, _)
decode_loop(global_ids, expected_type, tracker_label, i, internal_ids) ==
    IF i > Len(global_ids) THEN [ok |-> TRUE, ids |-> internal_ids, err |-> Ok]
    ELSE LET r == get_internal_id_from_global_id(
                      global_ids[i], expected_type, PositionLabel(i, tracker_label))
         IN  IF ~r.ok THEN [ok |-> FALSE, ids |-> <<>>, err |-> r.err]
             ELSE decode_loop(global_ids, expected_type, tracker_label, i + 1,
                              Append(internal_ids, r.id))

decode_global_ids_with_labels(global_ids, expected_type, tracker_label) ==
    IF global_ids = <<>>
        THEN [ok |-> FALSE, ids |-> <<>>, err |-> Err("UnboundLocalError", "")]
    ELSE decode_loop(global_ids, expected_type, tracker_label, 1, <<>>)

-----------------------------------------------------------------------------
(* Serializers *)

\* pk of "no instance" (a create)
NoInstance == 0

\* as UniqueValidator, never finding the value taken
UniqueValidator_Off(queryset, value, message) == {}

\* UniqueValidator: queryset.filter(<field>=value).exists()
UniqueValidator(queryset, value, message) ==
    IF value \in queryset THEN {message} ELSE {}

\* CharField.run_validation: trim, refuse blank, then run every validator
CharField(data, queryset, message) ==
    LET value == Strip(data)
    IN  IF value = <<>>
            THEN [value |-> value, errs |-> {"This field may not be blank."}]
        ELSE [value |-> value,
              errs |-> validate_string_field(value) \cup UniqueValidator(queryset, value, message)]

\* Ingredient.objects.all() without the serializer's instance, as names
IngredientNames(instance) ==
    { ingredients[pk] : pk \in DOMAIN ingredients \ {instance} }

\* Recipe.objects.all() without the serializer's instance, as titles
RecipeTitles(instance) ==
    { recipes[pk].title : pk \in DOMAIN recipes \ {instance} }

\* IngredientSerializer(instance, data={'name': name}).is_valid()
IngredientSerializer_is_valid(instance, name) ==
    CharField(name, IngredientNames(instance), "Ingredient with this name already exists.")

\* PrimaryKeyRelatedField(queryset=Ingredient.objects.all(), many=True)
IngredientsField(pks) ==
    IF \E i \in 1..Len(pks) : pks[i] \notin DOMAIN ingredients
        THEN {"Invalid pk - object does not exist."}
    ELSE {}

\* RecipeSerializer(data={'title': title, 'ingredients': pks}).is_valid()
RecipeSerializer_is_valid(title, pks) ==
    LET t == CharField(title, RecipeTitles(NoInstance), "Recipe with this name already exists.")
    IN  [value |-> t.value, errs |-> t.errs \cup IngredientsField(pks)]

\* instance.recipes.exists()
recipes_exists(pk) == \E r \in DOMAIN recipes : pk \in recipes[r].ingredients

Range(s) == { s[i] : i \in 1..Len(s) }

\* ManyRelatedManager.set(objs): drop the rows not in objs, add the missing ones
ManyRelatedManager_set(current, pks) == (current \ (current \ Range(pks))) \cup Range(pks)

\* as ManyRelatedManager_remove, clearing the relation (clear() for remove())
ManyRelatedManager_remove_Clear(current, pks) == {}

\* ManyRelatedManager.remove(*pks)
ManyRelatedManager_remove(current, pks) == current \ Range(pks)

\* as RecipeSerializer_create, without the ingredients.set(...) line
RecipeSerializer_create_NoSet(title, pks) ==
    [r \in DOMAIN recipes \cup {nextRecipeId} |->
        IF r = nextRecipeId THEN [title |-> title, ingredients |-> {}] ELSE recipes[r]]

\* RecipeSerializer.create: Recipe.objects.create(title), then ingredients.set
RecipeSerializer_create(title, pks) ==
    [r \in DOMAIN recipes \cup {nextRecipeId} |->
        IF r = nextRecipeId
            THEN [title |-> title, ingredients |-> ManyRelatedManager_set({}, pks)]
        ELSE recipes[r]]

\* ModelSerializer.update of a Recipe with validated_data = {'ingredients': pks}
RecipeSerializer_update(pk, pks) ==
    [recipes EXCEPT ![pk].ingredients = ManyRelatedManager_set(@, pks)]

\* as Ingredient_delete, leaving the m2m rows behind
Ingredient_delete_NoCascade(pk) == recipes

\* Ingredient.delete(): the row, and through the collector its m2m rows
Ingredient_delete(pk) ==
    [r \in DOMAIN recipes |-> [recipes[r] EXCEPT !.ingredients = @ \ {pk}]]

-----------------------------------------------------------------------------
(* The API calls, one request at a time *)

Idle == [op |-> "idle", id |-> NoGid, name |-> <<>>, ids |-> <<>>, resp |-> Ok]

Answer(op, id, name, ids, resp) ==
    last' = [op |-> op, id |-> id, name |-> name, ids |-> ids, resp |-> resp]

\* no call of the resolver outstanding
NoCall ==
    [fn |-> "none", global_ids |-> <<>>, expected_type |-> "", label |-> "",
     ok |-> TRUE, ids |-> <<>>, err |-> Ok]

Quiet ==
    /\ last = Idle
    /\ resolved = NoCall
    /\ \A w \in DOMAIN workers : workers[w].pc = "idle"

CreateIngredient(name) ==
    /\ Quiet
    /\ LET v == IngredientSerializer_is_valid(NoInstance, name)
       IN  IF v.errs # {}
               THEN /\ Answer("createIngredient", NoGid, name, <<>>, Invalid(v.errs))
                    /\ UNCHANGED db
           ELSE /\ nextIngredientId <= MaxIngredientId
                /\ ingredients' = [pk \in DOMAIN ingredients \cup {nextIngredientId} |->
                                      IF pk = nextIngredientId THEN v.value ELSE ingredients[pk]]
                /\ nextIngredientId' = nextIngredientId + 1
                /\ Answer("createIngredient", NoGid, name, <<>>, Ok)
                /\ UNCHANGED <<recipes, nextRecipeId>>
    /\ UNCHANGED <<tokens, gw, workers, resolved>>

\* as IngredientSerializer_update, testing for recipes after super().update()
IngredientSerializer_update_CheckAfterSave(pk, value) ==
    [ok |-> ~recipes_exists(pk), table |-> [ingredients EXCEPT ![pk] = value]]

\* as IngredientSerializer_update, without the test for recipes
IngredientSerializer_update_NoCheck(pk, value) ==
    [ok |-> TRUE, table |-> [ingredients EXCEPT ![pk] = value]]

\* IngredientSerializer.update
IngredientSerializer_update(pk, value) ==
    IF recipes_exists(pk)
        THEN [ok |-> FALSE, table |-> ingredients]
    ELSE [ok |-> TRUE, table |-> [ingredients EXCEPT ![pk] = value]]

UpdateIngredient(id, name) ==
    /\ Quiet
    /\ LET r == get_internal_id_from_global_id(id, "IngredientType", "Ingredient ID")
           v == IngredientSerializer_is_valid(r.id, name)
           u == IngredientSerializer_update(r.id, v.value)
       IN  IF ~r.ok
               THEN Answer("updateIngredient", id, name, <<>>, r.err) /\ UNCHANGED db
           ELSE IF v.errs # {}
               THEN Answer("updateIngredient", id, name, <<>>, Invalid(v.errs)) /\ UNCHANGED db
           ELSE /\ ingredients' = u.table
                /\ Answer("updateIngredient", id, name, <<>>,
                          IF u.ok THEN Ok
                          ELSE Invalid({"This ingredient is associated with a recipe and cannot be updated."}))
                /\ UNCHANGED <<recipes, nextIngredientId, nextRecipeId>>
    /\ UNCHANGED <<tokens, gw, workers, resolved>>

DeleteIngredient(id) ==
    /\ Quiet
    /\ LET r == get_internal_id_from_global_id(id, "IngredientType", "Ingredient ID")
       IN  IF ~r.ok
               THEN Answer("deleteIngredient", id, <<>>, <<>>, r.err) /\ UNCHANGED db
           ELSE /\ ingredients' = [pk \in DOMAIN ingredients \ {r.id} |-> ingredients[pk]]
                /\ recipes' = Ingredient_delete(r.id)
                /\ Answer("deleteIngredient", id, <<>>, <<>>, Ok)
                /\ UNCHANGED <<nextIngredientId, nextRecipeId>>
    /\ UNCHANGED <<tokens, gw, workers, resolved>>

CreateRecipe(title, ingredient_ids) ==
    /\ Quiet
    /\ LET d == decode_global_ids_with_labels(ingredient_ids, "IngredientType", "Ingredient ID")
           v == RecipeSerializer_is_valid(title, d.ids)
       IN  IF ingredient_ids = <<>>
               THEN /\ Answer("createRecipe", NoGid, title, ingredient_ids,
                              Err("Atleat one ingredient is necessary to create recipe.", ""))
                    /\ UNCHANGED db
           ELSE IF ~d.ok
               THEN Answer("createRecipe", NoGid, title, ingredient_ids, d.err) /\ UNCHANGED db
           ELSE IF v.errs # {}
               THEN /\ Answer("createRecipe", NoGid, title, ingredient_ids, Invalid(v.errs))
                    /\ UNCHANGED db
           ELSE /\ nextRecipeId <= MaxRecipeId
                /\ recipes' = RecipeSerializer_create(v.value, d.ids)
                /\ nextRecipeId' = nextRecipeId + 1
                /\ Answer("createRecipe", NoGid, title, ingredient_ids, Ok)
                /\ UNCHANGED <<ingredients, nextIngredientId>>
    /\ UNCHANGED <<tokens, gw, workers, resolved>>

AddIngredientsToRecipe(recipe_id, ingredient_ids) ==
    /\ Quiet
    /\ LET r == get_internal_id_from_global_id(recipe_id, "RecipeType", "Recipe ID")
           d == decode_global_ids_with_labels(ingredient_ids, "IngredientType", "Ingredient ID")
           errs == IngredientsField(d.ids)
       IN  IF ingredient_ids = <<>>
               THEN /\ Answer("addIngredientsToRecipe", recipe_id, <<>>, ingredient_ids,
                              Err("At least one ingredient ID must be provided.", ""))
                    /\ UNCHANGED db
           ELSE IF ~r.ok
               THEN /\ Answer("addIngredientsToRecipe", recipe_id, <<>>, ingredient_ids, r.err)
                    /\ UNCHANGED db
           ELSE IF ~d.ok
               THEN /\ Answer("addIngredientsToRecipe", recipe_id, <<>>, ingredient_ids, d.err)
                    /\ UNCHANGED db
           ELSE IF errs # {}
               THEN /\ Answer("addIngredientsToRecipe", recipe_id, <<>>, ingredient_ids, Invalid(errs))
                    /\ UNCHANGED db
           ELSE /\ recipes' = RecipeSerializer_update(r.id, d.ids)
                /\ Answer("addIngredientsToRecipe", recipe_id, <<>>, ingredient_ids, Ok)
                /\ UNCHANGED <<ingredients, nextIngredientId, nextRecipeId>>
    /\ UNCHANGED <<tokens, gw, workers, resolved>>

RemoveIngredientsFromRecipe(recipe_id, ingredient_ids) ==
    /\ Quiet
    /\ LET r == get_internal_id_from_global_id(recipe_id, "RecipeType", "Recipe ID")
           d == decode_global_ids_with_labels(ingredient_ids, "IngredientType", "Ingredient ID")
       IN  IF ingredient_ids = <<>>
               THEN /\ Answer("removeIngredientsFromRecipe", recipe_id, <<>>, ingredient_ids,
                              Err("At least one ingredient ID must be provided.", ""))
                    /\ UNCHANGED db
           ELSE IF ~r.ok
               THEN /\ Answer("removeIngredientsFromRecipe", recipe_id, <<>>, ingredient_ids, r.err)
                    /\ UNCHANGED db
           ELSE IF ~d.ok
               THEN /\ Answer("removeIngredientsFromRecipe", recipe_id, <<>>, ingredient_ids, d.err)
                    /\ UNCHANGED db
           ELSE /\ recipes' = [recipes EXCEPT ![r.id].ingredients =
                                   ManyRelatedManager_remove(@, d.ids)]
                /\ Answer("removeIngredientsFromRecipe", recipe_id, <<>>, ingredient_ids, Ok)
                /\ UNCHANGED <<ingredients, nextIngredientId, nextRecipeId>>
    /\ UNCHANGED <<tokens, gw, workers, resolved>>

\* the response has gone out; the next request is taken
Return ==
    /\ last # Idle
    /\ last' = Idle
    /\ UNCHANGED <<db, tokens, gw, workers, resolved>>

-----------------------------------------------------------------------------
(* The request gateway: DRFAuthenticatedGraphQLView.dispatch, and the token *)
(* endpoint that issues the keys it accepts.                                *)

Users == {"alice", "bob"}
Anonymous == "AnonymousUser"

QueryFields == {"__schema", "allIngredients", "allRecipes", "recipe"}
MutationFields ==
    {"createIngredient", "updateIngredient", "deleteIngredient",
     "createRecipe", "addIngredientsToRecipe", "removeIngredientsFromRecipe"}

\* a GraphQL document as its words: operation type, operation name, root field
QueryInputs ==
    { <<"query", n, f>> : n \in {"", "IntrospectionQuery"}, f \in QueryFields } \cup
    { <<"mutation", n, f>> : n \in {"", "IntrospectionQuery"}, f \in MutationFields }

\* request.body: not JSON, JSON that is no object, or an object (query "" when absent)
BodyInputs ==
    { [kind |-> "invalid", query |-> <<>>], [kind |-> "array", query |-> <<>>],
      [kind |-> "object", query |-> <<>>] } \cup
    { [kind |-> "object", query |-> q] : q \in QueryInputs }

\* the Authorization header: absent, empty, or "<scheme> <key>"
AuthInputs ==
    { [scheme |-> "absent", key |-> ""], [scheme |-> "empty", key |-> ""],
      [scheme |-> "Token", key |-> ""] } \cup
    { [scheme |-> sch, key |-> k] : sch \in {"Token", "Bearer"}, k \in Users \cup {"junk"} }

\* request.user as the middleware left it: anonymous for an API client, the
\* logged-in user for a browser that holds a session
ApiClientRequests ==
    [method : {"GET", "POST", "PUT"}, html : BOOLEAN, body : BodyInputs,
     auth : AuthInputs, user : {Anonymous}]

BrowserSessionRequests ==
    [method : {"GET", "POST", "PUT"}, html : BOOLEAN, body : BodyInputs,
     auth : AuthInputs, user : {"alice"}]

\* "IntrospectionQuery" in query
HasMarker(query) == \E i \in 1..Len(query) : query[i] = "IntrospectionQuery"

\* as IntrospectionAllowed, with the test for the marker left out
IntrospectionAllowed_NoMarkerTest(request) ==
    /\ request.method = "POST"
    /\ request.body.kind = "object"

\* the POST branch: json.loads(body).get("query", ""), any exception falls through
IntrospectionAllowed(request) ==
    /\ request.method = "POST"
    /\ request.body.kind = "object"
    /\ HasMarker(request.body.query)

\* TokenAuthentication().authenticate(request): a user, None, or AuthenticationFailed
authenticate(request) ==
    IF request.auth.scheme # "Token" THEN [fails |-> FALSE, user |-> "None", msg |-> ""]
    ELSE IF request.auth.key = ""
        THEN [fails |-> TRUE, user |-> "None",
              msg |-> "Invalid token header. No credentials provided."]
    ELSE IF request.auth.key \notin tokens
        THEN [fails |-> TRUE, user |-> "None", msg |-> "Invalid token."]
    ELSE [fails |-> FALSE, user |-> request.auth.key, msg |-> ""]

Forward(user) == [forward |-> TRUE, status |-> 200, message |-> "", user |-> user]
Reject(message) == [forward |-> FALSE, status |-> 401, message |-> message, user |-> Anonymous]

\* as dispatch, reading the Authorization header before the two open branches
dispatch_HeaderFirst(request) ==
    LET a == authenticate(request)
        user == IF a.user # "None" THEN a.user ELSE request.user
    IN  IF request.auth.scheme \in {"absent", "empty"}
            THEN Reject("Authentication token not provided.")
        ELSE IF request.method = "GET" /\ request.html THEN Forward(request.user)
        ELSE IF IntrospectionAllowed(request) THEN Forward(request.user)
        ELSE IF a.fails THEN Reject(a.msg)
        ELSE IF user = Anonymous THEN Reject("Invalid or expired token.")
        ELSE Forward(user)

\* DRFAuthenticatedGraphQLView.dispatch: the outcome for one request
dispatch(request) ==
    LET a == authenticate(request)
        user == IF a.user # "None" THEN a.user ELSE request.user
    IN  IF request.method = "GET" /\ request.html THEN Forward(request.user)
        ELSE IF IntrospectionAllowed(request) THEN Forward(request.user)
        ELSE IF request.auth.scheme \in {"absent", "empty"}
            THEN Reject("Authentication token not provided.")
        ELSE IF a.fails THEN Reject(a.msg)
        ELSE IF user = Anonymous THEN Reject("Invalid or expired token.")
        ELSE Forward(user)

\* what the GraphQL view behind the gateway does with a forwarded request
Executes(request) ==
    IF request.method = "GET" /\ request.html THEN "graphiql"
    ELSE IF request.method # "POST" \/ request.body.kind # "object" \/ request.body.query = <<>>
        THEN "nothing"
    ELSE IF request.body.query[3] = "__schema" THEN "introspection"
    ELSE IF request.body.query[1] = "mutation" THEN "mutation"
    ELSE "read"

NoDispatch ==
    [request |-> [method |-> "none", html |-> FALSE,
                  body |-> [kind |-> "invalid", query |-> <<>>],
                  auth |-> [scheme |-> "absent", key |-> ""], user |-> Anonymous],
     outcome |-> Reject(""), executes |-> "nothing"]

Dispatch(request) ==
    /\ gw = NoDispatch
    /\ gw' = [request |-> request, outcome |-> dispatch(request),
              executes |-> IF dispatch(request).forward THEN Executes(request) ELSE "nothing"]
    /\ UNCHANGED <<db, last, tokens, workers, resolved>>

\* CustomAuthToken.post: valid credentials get (or create) the user's token
ObtainToken(user, credentials_valid) ==
    /\ gw = NoDispatch
    /\ tokens' = IF credentials_valid THEN tokens \cup {user} ELSE tokens
    /\ UNCHANGED <<db, last, gw, workers, resolved>>

\* the gateway's answer has gone out; the next request is taken
Served ==
    /\ gw # NoDispatch
    /\ gw' = NoDispatch
    /\ UNCHANGED <<db, last, tokens, workers, resolved>>

NextGateway ==
    \/ \E user \in Users, valid \in BOOLEAN : ObtainToken(user, valid)
    \/ \E request \in ApiClientRequests : Dispatch(request)
    \/ \E request \in BrowserSessionRequests : Dispatch(request)
    \/ Served

-----------------------------------------------------------------------------
(* Two requests in flight.  No mutation opens a transaction, so another     *)
(* request's statements may run between a mutation's reads (resolving,      *)
(* is_valid) and its writes (save).                                         *)

Workers == {1, 2}
IdleWorker == [pc |-> "idle", op |-> "none", pk |-> 0, value |-> <<>>, pks |-> <<>>]

Sequential == last = Idle /\ gw = NoDispatch

\* createIngredient up to and including serializer.is_valid()
ValidateCreateIngredient(w, name) ==
    /\ Sequential /\ workers[w].pc = "idle"
    /\ LET v == IngredientSerializer_is_valid(NoInstance, name)
       IN  workers' = [workers EXCEPT ![w] =
               IF v.errs # {} THEN IdleWorker
               ELSE [pc |-> "save", op |-> "createIngredient", pk |-> 0,
                     value |-> v.value, pks |-> <<>>]]
    /\ UNCHANGED <<db, last, tokens, gw, resolved>>

\* updateIngredient up to and including serializer.is_valid()
ValidateUpdateIngredient(w, id, name) ==
    /\ Sequential /\ workers[w].pc = "idle"
    /\ LET r == get_internal_id_from_global_id(id, "IngredientType", "Ingredient ID")
           v == IngredientSerializer_is_valid(r.id, name)
       IN  workers' = [workers EXCEPT ![w] =
               IF ~r.ok \/ v.errs # {} THEN IdleWorker
               ELSE [pc |-> "save", op |-> "updateIngredient", pk |-> r.id,
                     value |-> v.value, pks |-> <<>>]]
    /\ UNCHANGED <<db, last, tokens, gw, resolved>>

\* createRecipe up to and including serializer.is_valid()
ValidateCreateRecipe(w, title, ingredient_ids) ==
    /\ Sequential /\ workers[w].pc = "idle"
    /\ LET d == decode_global_ids_with_labels(ingredient_ids, "IngredientType", "Ingredient ID")
           v == RecipeSerializer_is_valid(title, d.ids)
       IN  workers' = [workers EXCEPT ![w] =
               IF ingredient_ids = <<>> \/ ~d.ok \/ v.errs # {} THEN IdleWorker
               ELSE [pc |-> "save", op |-> "createRecipe", pk |-> 0,
                     value |-> v.value, pks |-> d.ids]]
    /\ UNCHANGED <<db, last, tokens, gw, resolved>>

\* serializer.save() of the request the worker has validated
Save(w) ==
    /\ workers[w].pc = "save"
    /\ \/ /\ workers[w].op = "createIngredient"
          /\ nextIngredientId <= MaxIngredientId
          /\ ingredients' = [pk \in DOMAIN ingredients \cup {nextIngredientId} |->
                                IF pk = nextIngredientId THEN workers[w].value
                                ELSE ingredients[pk]]
          /\ nextIngredientId' = nextIngredientId + 1
          /\ UNCHANGED <<recipes, nextRecipeId>>
       \/ /\ workers[w].op = "updateIngredient"
          /\ ingredients' = IngredientSerializer_update(workers[w].pk, workers[w].value).table
          /\ UNCHANGED <<recipes, nextIngredientId, nextRecipeId>>
       \/ /\ workers[w].op = "createRecipe"
          /\ nextRecipeId <= MaxRecipeId
          /\ recipes' = RecipeSerializer_create(workers[w].value, workers[w].pks)
          /\ nextRecipeId' = nextRecipeId + 1
          /\ UNCHANGED <<ingredients, nextIngredientId>>
    /\ workers' = [workers EXCEPT ![w] = IdleWorker]
    /\ UNCHANGED <<last, tokens, gw, resolved>>

NextConcurrent ==
    \/ \E w \in Workers, name \in NameInputs : ValidateCreateIngredient(w, name)
    \/ \E w \in Workers, id \in IngredientIdInputs, name \in NameInputs :
           ValidateUpdateIngredient(w, id, name)
    \/ \E w \in Workers, title \in TitleInputs, ids \in BatchInputs :
           ValidateCreateRecipe(w, title, ids)
    \/ \E w \in Workers : Save(w)

-----------------------------------------------------------------------------

(* The resolver called on its own (utils.py), over the catalogs the API builds *)

NodeTypes == {"IngredientType", "RecipeType"}

\* the label a caller passes with the id of a node of this type
LabelOf(expected_type) ==
    IF expected_type = "IngredientType" THEN "Ingredient ID" ELSE "Recipe ID"

\* ids given to get_internal_id_from_global_id
ResolverIdInputs ==
    IngredientGids \cup RecipeGids \cup
    { Gid(t, tok) : t \in NodeTypes, tok \in {IntTok(0), EmptyTok, TextTok} } \cup { BadGid }

\* elements of a list given to decode_global_ids_with_labels
ResolverBatchIdInputs ==
    IngredientGids \cup
    { Gid("RecipeType", IntTok(1)), Gid("IngredientType", IntTok(0)),
      Gid("IngredientType", EmptyTok), Gid("IngredientType", TextTok), BadGid }

RECURSIVE Repeat(_, _)
Repeat(x, n) == IF n = 0 THEN <<>> ELSE <<x>> \o Repeat(x, n - 1)

\* lists given to decode_global_ids_with_labels: a run of one id, then any short list
ResolverBatchInputs ==
    { Repeat(Gid("IngredientType", IntTok(1)), n) \o rest :
        n \in 0..MaxPrefix, rest \in SeqsUpTo(ResolverBatchIdInputs, MaxBatch) }

ResolveOne(global_id, expected_type) ==
    /\ Quiet
    /\ LET r == get_internal_id_from_global_id(global_id, expected_type, LabelOf(expected_type))
       IN  resolved' = [fn |-> "get_internal_id_from_global_id",
                        global_ids |-> <<global_id>>, expected_type |-> expected_type,
                        label |-> LabelOf(expected_type),
                        ok |-> r.ok, ids |-> IF r.ok THEN <<r.id>> ELSE <<>>, err |-> r.err]
    /\ UNCHANGED <<db, last, tokens, gw, workers>>

ResolveMany(global_ids, expected_type) ==
    /\ Quiet
    /\ LET d == decode_global_ids_with_labels(global_ids, expected_type, LabelOf(expected_type))
       IN  resolved' = [fn |-> "decode_global_ids_with_labels",
                        global_ids |-> global_ids, expected_type |-> expected_type,
                        label |-> LabelOf(expected_type),
                        ok |-> d.ok, ids |-> d.ids, err |-> d.err]
    /\ UNCHANGED <<db, last, tokens, gw, workers>>

ResolverReturn ==
    /\ resolved # NoCall
    /\ resolved' = NoCall
    /\ UNCHANGED <<db, last, tokens, gw, workers>>

NextResolver ==
    \/ \E name \in NameInputs : CreateIngredient(name)
    \/ \E id \in IngredientIdInputs : DeleteIngredient(id)
    \/ Return
    \/ \E ids \in ResolverBatchInputs : ResolveMany(ids, "IngredientType")
    \/ ResolverReturn

-----------------------------------------------------------------------------

Init ==
    /\ ingredients = <<>>
    /\ recipes = <<>>
    /\ nextIngredientId = 1
    /\ nextRecipeId = 1
    /\ last = Idle
    /\ tokens = {}
    /\ gw = NoDispatch
    /\ workers = [w \in Workers |-> IdleWorker]
    /\ resolved = NoCall

Next ==
    \/ \E name \in NameInputs : CreateIngredient(name)
    \/ \E id \in IngredientIdInputs, name \in NameInputs : UpdateIngredient(id, name)
    \/ \E id \in IngredientIdInputs : DeleteIngredient(id)
    \/ \E title \in TitleInputs, ids \in BatchInputs : CreateRecipe(title, ids)
    \/ \E id \in RecipeIdInputs, ids \in BatchInputs : AddIngredientsToRecipe(id, ids)
    \/ \E id \in RecipeIdInputs, ids \in BatchInputs : RemoveIngredientsFromRecipe(id, ids)
    \/ Return
    \/ \E id \in ResolverIdInputs, t \in NodeTypes : ResolveOne(id, t)
    \/ ResolverReturn

Spec == Init /\ [][Next]_vars

SpecGateway == Init /\ [][NextGateway]_vars

SpecConcurrent == Init /\ [][NextConcurrent]_vars

SpecResolver == Init /\ [][NextResolver]_vars

-----------------------------------------------------------------------------
(* Claims about the gateway (SpecGateway) *)

ValidToken(request) == request.auth.scheme = "Token" /\ request.auth.key \in tokens

\* C1: every forwarded request is a GET negotiating HTML, a schema introspection
\* query, or carries a valid token with that identity attached; in particular no
\* forwarded request that executes a data-reading query or a mutation lacks a
\* valid token.
C1_ForwardedOnlyIfAllowlistedOrAuthenticated ==
    gw.outcome.forward =>
        /\ \/ gw.request.method = "GET" /\ gw.request.html
           \/ gw.executes = "introspection"
           \/ ValidToken(gw.request) /\ gw.outcome.user = gw.request.auth.key
        /\ gw.executes \in {"read", "mutation"} => ValidToken(gw.request)

\* C2: a GET whose Accept header contains text/html is forwarded whatever token it
\* has or lacks; a POST with no Authorization header and no introspection marker
\* in its query text is answered 401 and not forwarded.
C2_GraphiqlOpenPostWithoutTokenRejected ==
    /\ (gw.request.method = "GET" /\ gw.request.html) => gw.outcome.forward
    /\ ( /\ gw.request.method = "POST"
         /\ gw.request.auth.scheme = "absent"
         /\ ~HasMarker(gw.request.body.query) )
       => (~gw.outcome.forward /\ gw.outcome.status = 401 /\ gw.executes = "nothing")

C2_Witness ==
    /\ gw.request.method = "POST"
    /\ gw.request.auth.scheme = "absent"
    /\ gw.request.body.kind = "object"
    /\ gw.request.body.query = <<"mutation", "", "createIngredient">>
    /\ gw.outcome = Reject("Authentication token not provided.")

-----------------------------------------------------------------------------
(* Claims about concurrent writers (SpecConcurrent) *)

UniqueNames ==
    \A p, q \in DOMAIN ingredients : p # q => ingredients[p] # ingredients[q]

UniqueTitles ==
    \A p, q \in DOMAIN recipes : p # q => recipes[p].title # recipes[q].title

\* C3: under any interleaving of two requests that write the same name, no
\* reachable state holds two live Ingredients with equal name or two live Recipes
\* with equal title.
C3_UniqueUnderConcurrency == UniqueNames /\ UniqueTitles

-----------------------------------------------------------------------------
(* Claims about the mutations, one request at a time (Spec).  The request   *)
(* answered by a step is last', the catalog before it is unprimed.          *)

InUseMessage == "This ingredient is associated with a recipe and cannot be updated."

\* the text rules on the value the name field validates: the trimmed input
PassesTextRules(value) ==
    /\ Len(value) >= 2
    /\ \E i \in 1..Len(value) : value[i] \notin Digits
    /\ \E i \in 1..Len(value) : value[i] \in Letters \cup Digits \cup Spaces

\* the pk a request's id resolves to in the catalog before the step, 0 if none
IngredientPk(id) ==
    IF id.wf /\ id.type = "IngredientType" /\ id.id.k = "int" /\ id.id.v \in DOMAIN ingredients
        THEN id.id.v ELSE 0

RecipePk(id) ==
    IF id.wf /\ id.type = "RecipeType" /\ id.id.k = "int" /\ id.id.v \in DOMAIN recipes
        THEN id.id.v ELSE 0

AllResolve(ids) == ids # <<>> /\ \A i \in 1..Len(ids) : IngredientPk(ids[i]) # 0

Pks(ids) == { IngredientPk(ids[i]) : i \in 1..Len(ids) }

Distinct(ids) == \A i, j \in 1..Len(ids) : i # j => ids[i] # ids[j]

\* C4: after any sequence of mutations no two live Ingredients share a name and no
\* two live Recipes share a title (exact match); a createIngredient whose name
\* equals an existing Ingredient's name fails with the uniqueness error and leaves
\* the Ingredients as they were.
C4_UniqueAfterSequentialMutations ==
    [][ /\ UniqueNames'
        /\ UniqueTitles'
        /\ ( /\ last'.op = "createIngredient"
             /\ \E pk \in DOMAIN ingredients : ingredients[pk] = last'.name )
           => /\ ~last'.resp.ok
              /\ "Ingredient with this name already exists." \in last'.resp.msgs
              /\ ingredients' = ingredients ]_vars

C4_Witness ==
    /\ last.op = "createIngredient"
    /\ ~last.resp.ok
    /\ last.resp.msgs = {"Ingredient with this name already exists."}
    /\ \E pk \in DOMAIN ingredients : ingredients[pk] = last.name

\* C5: a mutation that returns an error leaves the Ingredients, the Recipes and
\* every Recipe's association set exactly as they were before the call.
C5_ErrorLeavesCatalogUnchanged ==
    [][ (last'.op # "idle" /\ ~last'.resp.ok)
            => (ingredients' = ingredients /\ recipes' = recipes) ]_vars

\* a batch whose second id fails after its first id, one the recipe holds, resolved
C5_Witness ==
    /\ last.op = "removeIngredientsFromRecipe"
    /\ ~last.resp.ok
    /\ last.resp.label = "Second Ingredient ID"
    /\ RecipePk(last.id) # 0
    /\ IngredientPk(last.ids[1]) \in recipes[RecipePk(last.id)].ingredients

\* C6: a successful addIngredientsToRecipe leaves the recipe with its previous
\* associations united with the given ingredients, and changes nothing else.
C6_AddKeepsPreviousAssociations ==
    [][ (last'.op = "addIngredientsToRecipe" /\ last'.resp.ok)
            => /\ recipes' = [recipes EXCEPT ![RecipePk(last'.id)].ingredients =
                                  @ \cup Pks(last'.ids)]
               /\ ingredients' = ingredients ]_vars

\* C7 as stated: updateIngredient on an Ingredient some Recipe holds fails with the
\* in-use error whatever the new name, and leaves the name; on an Ingredient no
\* Recipe holds, with a new name that passes the text rules and that no other
\* Ingredient has, it succeeds and sets the name.
C7_InUseErrorWhateverTheName ==
    [][ (last'.op = "updateIngredient" /\ IngredientPk(last'.id) # 0)
            => LET pk == IngredientPk(last'.id)
                   value == Strip(last'.name)
                   acceptable == PassesTextRules(value) /\ value \notin IngredientNames(pk)
               IN  /\ recipes_exists(pk)
                       => /\ last'.resp = Invalid({InUseMessage})
                          /\ ingredients' = ingredients
                   /\ (~recipes_exists(pk) /\ acceptable)
                       => /\ last'.resp.ok
                          /\ ingredients' = [ingredients EXCEPT ![pk] = value] ]_vars

\* C7 amended: updateIngredient on an Ingredient some Recipe holds always fails and
\* leaves the name; the error is the in-use error when the new name passes the
\* field's validation, and the validation error (never the in-use error) when it
\* does not.  The second half is as stated.
C7_InUseErrorAfterValidation ==
    [][ (last'.op = "updateIngredient" /\ IngredientPk(last'.id) # 0)
            => LET pk == IngredientPk(last'.id)
                   value == Strip(last'.name)
                   acceptable == PassesTextRules(value) /\ value \notin IngredientNames(pk)
               IN  /\ recipes_exists(pk)
                       => /\ ~last'.resp.ok
                          /\ ingredients' = ingredients
                          /\ acceptable => last'.resp = Invalid({InUseMessage})
                          /\ ~acceptable => /\ last'.resp.kind = "validation"
                                            /\ last'.resp.msgs # {}
                                            /\ InUseMessage \notin last'.resp.msgs
                   /\ (~recipes_exists(pk) /\ acceptable)
                       => /\ last'.resp.ok
                          /\ ingredients' = [ingredients EXCEPT ![pk] = value] ]_vars

C7_Witness ==
    /\ last.op = "updateIngredient"
    /\ IngredientPk(last.id) # 0
    /\ recipes_exists(IngredientPk(last.id))
    /\ last.resp = Invalid({InUseMessage})

\* C8: a successful deleteIngredient removes the Ingredient and takes it out of
\* every Recipe's association set; the Recipes, their titles and their other
\* associations stay, and no association refers to an Ingredient that is gone.
C8_DeleteDetachesEverywhere ==
    [][ /\ \A r \in DOMAIN recipes' : recipes'[r].ingredients \subseteq DOMAIN ingredients'
        /\ (last'.op = "deleteIngredient" /\ last'.resp.ok)
            => LET pk == IngredientPk(last'.id)
               IN  /\ pk # 0
                   /\ DOMAIN ingredients' = DOMAIN ingredients \ {pk}
                   /\ \A i \in DOMAIN ingredients' : ingredients'[i] = ingredients[i]
                   /\ DOMAIN recipes' = DOMAIN recipes
                   /\ \A r \in DOMAIN recipes :
                          /\ recipes'[r].title = recipes[r].title
                          /\ recipes'[r].ingredients = recipes[r].ingredients \ {pk} ]_vars

\* the Ingredient is gone and a Recipe that holds another one is still there
C8_Witness ==
    /\ last.op = "deleteIngredient"
    /\ last.resp.ok
    /\ last.id.id.v \notin DOMAIN ingredients
    /\ \E r \in DOMAIN recipes : recipes[r].ingredients # {}

\* RecipeType.resolve_ingredient_count
resolve_ingredient_count(self) == Cardinality(self.ingredients)

\* C9: createRecipe with an empty or omitted id list is rejected with the
\* non-empty-batch error and creates no Recipe; with a valid unique title and k
\* distinct ids of live Ingredients it succeeds and the new Recipe's
\* ingredient_count is k, so a Recipe has at least one ingredient when created.
C9_CreateRecipeCountsItsIngredients ==
    [][ last'.op = "createRecipe"
            => LET title == Strip(last'.name)
                   ids == last'.ids
               IN  /\ ids = <<>>
                       => /\ last'.resp =
                                Err("Atleat one ingredient is necessary to create recipe.", "")
                          /\ recipes' = recipes
                   /\ ( /\ AllResolve(ids) /\ Distinct(ids)
                        /\ PassesTextRules(title) /\ title \notin RecipeTitles(NoInstance) )
                       => /\ last'.resp.ok
                          /\ DOMAIN recipes' = DOMAIN recipes \cup {nextRecipeId}
                          /\ nextRecipeId \notin DOMAIN recipes
                          /\ recipes'[nextRecipeId].title = title
                          /\ resolve_ingredient_count(recipes'[nextRecipeId]) = Len(ids)
                   /\ last'.resp.ok => resolve_ingredient_count(recipes'[nextRecipeId]) >= 1 ]_vars

C9_Witness ==
    /\ last.op = "createRecipe"
    /\ last.resp.ok
    /\ Len(last.ids) = MaxBatch
    /\ Distinct(last.ids)
    /\ resolve_ingredient_count(recipes[nextRecipeId - 1]) = MaxBatch

\* C10: removeIngredientsFromRecipe with a non-empty list of ids of live
\* Ingredients succeeds, also when it leaves the recipe empty; it takes exactly the
\* given Ingredients out of that recipe's association set and changes nothing else.
C10_RemoveTakesExactlyTheGiven ==
    [][ ( /\ last'.op = "removeIngredientsFromRecipe"
          /\ RecipePk(last'.id) # 0
          /\ AllResolve(last'.ids) )
            => /\ last'.resp.ok
               /\ recipes' = [recipes EXCEPT ![RecipePk(last'.id)].ingredients =
                                  @ \ Pks(last'.ids)]
               /\ ingredients' = ingredients ]_vars

\* every ingredient of a recipe removed, while another recipe keeps its own
C10_Witness ==
    /\ last.op = "removeIngredientsFromRecipe"
    /\ last.resp.ok
    /\ recipes[RecipePk(last.id)].ingredients = {}
    /\ \E r \in DOMAIN recipes : recipes[r].ingredients # {}

-----------------------------------------------------------------------------
(* Claims about the resolver (Spec, SpecResolver) *)

\* a global id that decodes to a type name and a positive integer
WellFormed(global_id) ==
    global_id.wf /\ global_id.id.k = "int" /\ global_id.id.v >= 1

TypesOf(ids) == { ids[i].type : i \in 1..Len(ids) }

\* C11: get_internal_id_from_global_id given a well-formed global id whose type
\* differs from expected_type fails with the "Invalid node type" error, never with
\* "not found.", whatever the two tables hold; and a mutation that succeeded was
\* given an Ingredient id wherever it expects one and a Recipe id wherever it
\* expects one.
C11_WrongTypeIsTypeMismatch ==
    /\ ( /\ resolved.fn = "get_internal_id_from_global_id"
         /\ WellFormed(resolved.global_ids[1])
         /\ resolved.global_ids[1].type # resolved.expected_type )
            => resolved.err = Err("Invalid node type", resolved.label)
    /\ (last.op \in {"updateIngredient", "deleteIngredient"} /\ last.resp.ok)
            => last.id.type = "IngredientType"
    /\ (last.op \in {"addIngredientsToRecipe", "removeIngredientsFromRecipe"} /\ last.resp.ok)
            => last.id.type = "RecipeType"
    /\ (last.op \in {"createRecipe", "addIngredientsToRecipe",
                     "removeIngredientsFromRecipe"} /\ last.resp.ok)
            => TypesOf(last.ids) \subseteq {"IngredientType"}

\* a Recipe id given for an Ingredient while both tables hold a row with that pk
C11_Witness ==
    /\ resolved.fn = "get_internal_id_from_global_id"
    /\ resolved.global_ids = << Gid("RecipeType", IntTok(1)) >>
    /\ resolved.expected_type = "IngredientType"
    /\ 1 \in DOMAIN ingredients
    /\ 1 \in DOMAIN recipes
    /\ resolved.err = Err("Invalid node type", "Ingredient ID")

\* C12: get_internal_id_from_global_id fails with "<label> is invalid.", and with
\* no other error, whenever the global id cannot be decoded or its local id is
\* empty or is not a positive integer, whatever the tables hold.
C12_UndecodableOrNonPositiveIsInvalid ==
    ( /\ resolved.fn = "get_internal_id_from_global_id"
      /\ ~WellFormed(resolved.global_ids[1]) )
        => resolved.err = Err("is invalid.", resolved.label)

\* the element resolves as an Ingredient in this catalog
Resolves(global_id) ==
    get_internal_id_from_global_id(global_id, "IngredientType", "").ok

\* the position of the first element that does not resolve, 0 when all resolve
FirstFailing(global_ids) ==
    IF \A i \in 1..Len(global_ids) : Resolves(global_ids[i]) THEN 0
    ELSE CHOOSE i \in 1..Len(global_ids) :
             /\ ~Resolves(global_ids[i])
             /\ \A j \in 1..(i - 1) : Resolves(global_ids[j])

\* C13: decode_global_ids_with_labels over a list of three or more ids whose first
\* two resolve and whose third is malformed fails with an error whose label is
\* "Third" followed by the group label; in general the label of the error names the
\* 1-based position of the failing element, by its ordinal word up to the tenth and
\* as "<n>th" beyond.
C13_ThirdMalformedIsLabelledThird ==
    (resolved.fn = "decode_global_ids_with_labels" /\ resolved.global_ids # <<>>)
        => LET n == FirstFailing(resolved.global_ids)
           IN  /\ (n = 3 /\ ~WellFormed(resolved.global_ids[3]))
                    => ~resolved.ok /\ resolved.err.label = "Third " \o resolved.label
               /\ (n > 10)
                    => ~resolved.ok /\ resolved.err.label = ToString(n) \o "th " \o resolved.label

\* the error get_internal_id_from_global_id raises for the element at position i
ErrorAt(global_ids, i, tracker_label) ==
    get_internal_id_from_global_id(
        global_ids[i], "IngredientType", PositionLabel(i, tracker_label)).err

\* C14: decode_global_ids_with_labels takes the ids in input order and stops at the
\* first that fails: the one error raised is that of the lowest-indexed failing
\* element, whatever the elements after it are, and nothing is returned; when every
\* element resolves, the internal ids returned are those of the input, in the same
\* order and number.
C14_FailFastInInputOrder ==
    (resolved.fn = "decode_global_ids_with_labels" /\ resolved.global_ids # <<>>)
        => LET n == FirstFailing(resolved.global_ids)
           IN  IF n = 0
                   THEN /\ resolved.ok
                        /\ Len(resolved.ids) = Len(resolved.global_ids)
                        /\ \A i \in 1..Len(resolved.ids) :
                               resolved.ids[i] = resolved.global_ids[i].id.v
               ELSE /\ ~resolved.ok
                    /\ resolved.ids = <<>>
                    /\ resolved.err = ErrorAt(resolved.global_ids, n, resolved.label)

\* two elements fail, for different reasons, behind elements that resolve
C14_Witness ==
    /\ resolved.fn = "decode_global_ids_with_labels"
    /\ \E n, m \in 1..Len(resolved.global_ids) :
           /\ 1 < n /\ n < m
           /\ FirstFailing(resolved.global_ids) = n
           /\ ~Resolves(resolved.global_ids[m])
           /\ ErrorAt(resolved.global_ids, m, resolved.label).kind
                  # ErrorAt(resolved.global_ids, n, resolved.label).kind
           /\ resolved.err = ErrorAt(resolved.global_ids, n, resolved.label)

\* the errors raised for an empty list of ingredient ids (schema.py:275, 328, 383)
EmptyBatchErrors ==
    { Err("Atleat one ingredient is necessary to create recipe.", ""),
      Err("At least one ingredient ID must be provided.", "") }

\* the half of C15 about the three mutations, as a step: given an empty list of
\* ingredient ids they answer with the empty-batch error, whatever the recipe id
\* is, and change nothing
EmptyListRejectedByMutations ==
    ( /\ last'.op \in {"createRecipe", "addIngredientsToRecipe",
                       "removeIngredientsFromRecipe"}
      /\ last'.ids = <<>> )
        => last'.resp \in EmptyBatchErrors /\ db' = db

\* C15: decode_global_ids_with_labels given an empty list fails with the
\* empty-batch error; and createRecipe, addIngredientsToRecipe and
\* removeIngredientsFromRecipe given an empty list of ingredient ids are answered
\* with the empty-batch error, whatever the recipe id is, and change nothing.
C15_EmptyBatchRejected ==
    [][ /\ ( /\ resolved'.fn = "decode_global_ids_with_labels"
             /\ resolved'.global_ids = <<>> )
                => ~resolved'.ok /\ resolved'.err \in EmptyBatchErrors
        /\ EmptyListRejectedByMutations ]_vars

-----------------------------------------------------------------------------
(* Claims about the gateway's steps (SpecGateway) *)

\* the request takes one of the two branches that are open without a token
Allowlisted(request) ==
    \/ request.method = "GET" /\ request.html
    \/ request.method = "POST" /\ request.body.kind = "object" /\ HasMarker(request.body.query)

NoHeader(request) == request.auth.scheme \in {"absent", "empty"}

\* C16: every request ends forwarded or answered 401, and one answered 401 does
\* not reach the API.  For a request that is not allowlisted: without an
\* Authorization header the answer is 401 "Authentication token not provided.";
\* when the authenticator raises AuthenticationFailed it is 401 with that message;
\* when no authenticator yields an authenticated identity it is 401 "Invalid or
\* expired token."; otherwise the request is forwarded as the identity resolved.
C16_RejectionByFirstFailingStep ==
    gw # NoDispatch =>
        LET a == authenticate(gw.request)
        IN  /\ gw.outcome.forward \/ gw.outcome.status = 401
            /\ ~gw.outcome.forward => gw.executes = "nothing"
            /\ ~Allowlisted(gw.request) =>
                   gw.outcome =
                       IF NoHeader(gw.request)
                           THEN Reject("Authentication token not provided.")
                       ELSE IF a.fails THEN Reject(a.msg)
                       ELSE IF a.user = "None" THEN Reject("Invalid or expired token.")
                       ELSE Forward(a.user)

\* C17: the allowlist is tried before any credential: a GET accepting HTML, or a
\* POST whose JSON body's query text holds the introspection marker, is forwarded
\* whatever its Authorization header is, with request.user as it came; a POST whose
\* body is not a JSON object or has no query text is not forwarded by the allowlist
\* and takes the token steps.
C17_AllowlistBeforeCredentials ==
    gw # NoDispatch =>
        /\ Allowlisted(gw.request) => gw.outcome = Forward(gw.request.user)
        /\ ( /\ gw.request.method = "POST"
             /\ gw.request.body.kind # "object" \/ gw.request.body.query = <<>> )
               => /\ NoHeader(gw.request)
                       => gw.outcome = Reject("Authentication token not provided.")
                  /\ authenticate(gw.request).fails
                       => gw.outcome = Reject(authenticate(gw.request).msg)
                  /\ gw.outcome.forward
                       => ~NoHeader(gw.request) /\ gw.outcome.user # Anonymous

\* an introspection POST forwarded although its token is in nobody's hands
C17_Witness ==
    /\ gw.request.method = "POST"
    /\ gw.request.body.kind = "object"
    /\ HasMarker(gw.request.body.query)
    /\ gw.request.auth = [scheme |-> "Token", key |-> "junk"]
    /\ gw.request.user = Anonymous
    /\ gw.outcome.forward

====
